---- MODULE Spec2Model ----
(***************************************************************************)
(* Model of the syk-simulation repository: the Jordan-Wigner pair mapping  *)
(* and SYK Hamiltonian builder (jw_transform/hamiltonian.py), the Pauli    *)
(* product rotation synthesizer (ppr/ppr.py), the Trotter scheduler        *)
(* (trotter/trotter.py) and the Pauli string codec (ppr_utils.py).         *)
(*                                                                         *)
(* Every entry point is a call: Init* draws its arguments from bounded     *)
(* sets, the actions run the code of the call, and pc names the function   *)
(* (or the loop of it) that runs next, "done" after a normal return, or    *)
(* the name of the exception that ended the call.                          *)
(***************************************************************************)
EXTENDS Integers, Sequences, FiniteSets

VARIABLES
    pc,       \* the function or loop that runs next, "done", or an exception
    args,     \* the arguments of the call
    locals,   \* the local variables of the running function
    result,   \* the value returned ("none" until then)
    gates,    \* the gate calls issued against the qubit register, in order
    calls     \* the invocations of ppr_instance.compute, in order

vars == <<pc, args, locals, result, gates, calls>>

None == "none"

(***************************************************************************)
(* Python integers as bit masks.                                           *)
(***************************************************************************)
Pow2(i) == 2 ^ i

\* bit i of the non-negative integer m
Bit(m, i) == (m \div Pow2(i)) % 2

RECURSIVE BitAnd(_, _)
BitAnd(a, b) ==
    IF a = 0 \/ b = 0 THEN 0
    ELSE (a % 2) * (b % 2) + 2 * BitAnd(a \div 2, b \div 2)

RECURSIVE BitOr(_, _)
BitOr(a, b) ==
    IF a = 0 THEN b
    ELSE IF b = 0 THEN a
    ELSE (IF a % 2 = 1 \/ b % 2 = 1 THEN 1 ELSE 0) + 2 * BitOr(a \div 2, b \div 2)

RECURSIVE BitXor(_, _)
BitXor(a, b) ==
    IF a = 0 THEN b
    ELSE IF b = 0 THEN a
    ELSE (((a % 2) + (b % 2)) % 2) + 2 * BitXor(a \div 2, b \div 2)

\* int.bit_length()
RECURSIVE BitLength(_)
BitLength(m) == IF m = 0 THEN 0 ELSE 1 + BitLength(m \div 2)

\* the set of positions of the set bits of m
BitsOf(m) == {i \in 0..(BitLength(m) - 1) : Bit(m, i) = 1}

(***************************************************************************)
(* Complex phases as <<re, im>>.                                           *)
(***************************************************************************)
PlusI == <<0, 1>>
MinusI == <<0, -1>>
CMul(a, b) == <<a[1] * b[1] - a[2] * b[2], a[1] * b[2] + a[2] * b[1]>>
CNeg(a) == <<0 - a[1], 0 - a[2]>>
Real(a) == a[1]

(***************************************************************************)
(* jw_transform/hamiltonian.py: SYK_pair_to_mask                           *)
(***************************************************************************)
\* variant of SumPow2: the range takes its upper end in
RECURSIVE SumPow2Inclusive(_, _)
SumPow2Inclusive(lo, hi) ==
    IF lo > hi THEN 0 ELSE Pow2(lo) + SumPow2Inclusive(lo + 1, hi)

\* sum(2**i for i in range(lo, hi))
RECURSIVE SumPow2(_, _)
SumPow2(lo, hi) == IF lo >= hi THEN 0 ELSE Pow2(lo) + SumPow2(lo + 1, hi)

PairResult(ph, x, z) == [phase |-> ph, x_mask |-> x, z_mask |-> z]

\* variant of PairAscending: the Z string between the two qubits is left out
PairAscendingNoString(p, q) ==
    IF q \div 2 = p \div 2
    THEN PairResult(PlusI, 0, Pow2(q \div 2))
    ELSE LET x_mask == Pow2(p \div 2) + Pow2(q \div 2)
             z1 == IF q % 2 = 1 THEN Pow2(q \div 2) ELSE 0
         IN  IF p % 2 = 0
             THEN PairResult(MinusI, x_mask, z1 + Pow2(p \div 2))
             ELSE PairResult(PlusI, x_mask, z1)

\* variant of PairAscending: the lower qubit gets its Z for an odd p
PairAscendingOddLow(p, q) ==
    IF q \div 2 = p \div 2
    THEN PairResult(PlusI, 0, Pow2(q \div 2))
    ELSE LET x_mask == Pow2(p \div 2) + Pow2(q \div 2)
             z0 == SumPow2((p \div 2) + 1, q \div 2)
             z1 == IF q % 2 = 1 THEN z0 + Pow2(q \div 2) ELSE z0
         IN  IF p % 2 = 1
             THEN PairResult(MinusI, x_mask, z1 + Pow2(p \div 2))
             ELSE PairResult(PlusI, x_mask, z1)

\* the branch q > p of SYK_pair_to_mask
PairAscending(p, q) ==
    IF q \div 2 = p \div 2
    THEN PairResult(PlusI, 0, Pow2(q \div 2))
    ELSE LET x_mask == Pow2(p \div 2) + Pow2(q \div 2)
             z0 == SumPow2((p \div 2) + 1, q \div 2)
             z1 == IF q % 2 = 1 THEN z0 + Pow2(q \div 2) ELSE z0
         IN  IF p % 2 = 0
             THEN PairResult(MinusI, x_mask, z1 + Pow2(p \div 2))
             ELSE PairResult(PlusI, x_mask, z1)

\* variant of PairDescending: the cross-qubit signs of the branch q > p are
\* kept when the arguments are swapped
PairDescendingSameSign(p, q) ==
    IF q \div 2 = p \div 2
    THEN PairResult(MinusI, 0, Pow2(q \div 2))
    ELSE LET x_mask == Pow2(q \div 2) + Pow2(p \div 2)
             z0 == SumPow2((q \div 2) + 1, p \div 2)
             z1 == IF p % 2 = 1 THEN z0 + Pow2(p \div 2) ELSE z0
         IN  IF q % 2 = 0
             THEN PairResult(MinusI, x_mask, z1 + Pow2(q \div 2))
             ELSE PairResult(PlusI, x_mask, z1)

\* the branch q <= p of SYK_pair_to_mask
PairDescending(p, q) ==
    IF q \div 2 = p \div 2
    THEN PairResult(MinusI, 0, Pow2(q \div 2))
    ELSE LET x_mask == Pow2(q \div 2) + Pow2(p \div 2)
             z0 == SumPow2((q \div 2) + 1, p \div 2)
             z1 == IF p % 2 = 1 THEN z0 + Pow2(p \div 2) ELSE z0
         IN  IF q % 2 = 0
             THEN PairResult(PlusI, x_mask, z1 + Pow2(q \div 2))
             ELSE PairResult(MinusI, x_mask, z1)

SYK_pair_to_mask(p, q) ==
    IF q > p THEN PairAscending(p, q) ELSE PairDescending(p, q)

\* bound: parity-mode indices handed to SYK_pair_to_mask are below MaxMode
MaxMode == 10

InitPair ==
    /\ pc = "SYK_pair_to_mask"
    /\ args \in [p : 0..(MaxMode - 1), q : 0..(MaxMode - 1)]
    /\ locals = <<>>
    /\ result = None
    /\ gates = <<>>
    /\ calls = <<>>

CallPairToMask ==
    /\ pc = "SYK_pair_to_mask"
    /\ result' = SYK_pair_to_mask(args.p, args.q)
    /\ pc' = "done"
    /\ UNCHANGED <<args, locals, gates, calls>>

NextPair == CallPairToMask

SpecPair == InitPair /\ [][NextPair]_vars

Min(a, b) == IF a < b THEN a ELSE b
Max(a, b) == IF a > b THEN a ELSE b

\* C3: for p # q, SYK_pair_to_mask(p, q) and SYK_pair_to_mask(q, p) return the
\* same x_mask and the same z_mask, and phases that are negations of each other.
C3_Antisymmetry ==
    (pc = "done" /\ args.p # args.q) =>
        LET swapped == SYK_pair_to_mask(args.q, args.p)
        IN  /\ result.x_mask = swapped.x_mask
            /\ result.z_mask = swapped.z_mask
            /\ result.phase = CNeg(swapped.phase)
            /\ result.phase # swapped.phase

\* a cross-qubit pair given in descending order has been mapped, with phase +i,
\* and the same pair in ascending order maps to phase -i
C3_Witness ==
    /\ pc = "done"
    /\ args.p = 5 /\ args.q = 2
    /\ result.phase = PlusI
    /\ SYK_pair_to_mask(2, 5).phase = MinusI

\* C4: for p # q the result is the reference mapping: on one qubit, x_mask = 0,
\* z_mask = bit(q div 2), phase +i when q > p and -i otherwise; across qubits,
\* x_mask is the two endpoint bits, z_mask is every qubit strictly between the
\* endpoints, the lower endpoint iff the smaller mode is even, the upper endpoint
\* iff the larger mode is odd, and nothing else, and the phase is +i or -i.
C4_ReferenceMapping ==
    (pc = "done" /\ args.p # args.q) =>
        LET lo == Min(args.p, args.q)
            hi == Max(args.p, args.q)
            ql == lo \div 2
            qh == hi \div 2
        IN  IF ql = qh
            THEN /\ result.x_mask = 0
                 /\ BitsOf(result.z_mask) = {args.q \div 2}
                 /\ result.phase = (IF args.q > args.p THEN PlusI ELSE MinusI)
            ELSE /\ BitsOf(result.x_mask) = {ql, qh}
                 /\ BitsOf(result.z_mask) =
                        {k \in 0..qh : ql < k /\ k < qh}
                            \cup (IF lo % 2 = 0 THEN {ql} ELSE {})
                            \cup (IF hi % 2 = 1 THEN {qh} ELSE {})
                 /\ result.phase \in {PlusI, MinusI}

\* a pair three qubits apart has been mapped: the string covers qubits 1 and 2,
\* the lower endpoint (odd mode 1) and the upper endpoint (even mode 6) carry no Z
C4_Witness ==
    /\ pc = "done"
    /\ args.p = 1 /\ args.q = 6
    /\ result.x_mask = 9
    /\ result.z_mask = 6

(***************************************************************************)
(* Numbers: a Python float is modelled as the exact rational it stands     *)
(* for, <<numerator, denominator>> in lowest terms with denominator > 0.   *)
(***************************************************************************)
Abs(n) == IF n < 0 THEN 0 - n ELSE n

RECURSIVE GCD(_, _)
GCD(a, b) == IF b = 0 THEN a ELSE GCD(b, a % b)

Rat(n, d) ==
    LET g == GCD(Abs(n), Abs(d))
        sgn == IF d < 0 THEN 0 - 1 ELSE 1
    IN  <<(sgn * n) \div g, (sgn * d) \div g>>

RatInt(n) == <<n, 1>>
RatMul(a, b) == Rat(a[1] * b[1], a[2] * b[2])
RatDiv(a, b) == Rat(a[1] * b[2], a[2] * b[1])

\* abs(r) > 2 * np.pi: 2*pi lies strictly between 62831/10000 and 62832/10000,
\* and no number of the model lies in that gap
AbsGreaterThanTwoPi(r) == Abs(r[1]) * 10000 > 62831 * r[2]

(***************************************************************************)
(* ppr/ppr.py: PPR._compute                                                *)
(***************************************************************************)
\* the three shapes of theta
RawAngle(r) == [kind |-> "raw", val |-> r]
UnitAngle(u, r) == [kind |-> "units", unit |-> u, mag |-> r]
PiFraction(a, b) == [kind |-> "tuple", num |-> a, den |-> b]

\* a number of degrees: val itself (unit "deg"), or np.rad2deg(val) (unit "rad")
Degrees(r) == [val |-> r, unit |-> "deg"]
Rad2Deg(r) == [val |-> r, unit |-> "rad"]
Scale(k, a) == [val |-> RatMul(RatInt(k), a.val), unit |-> a.unit]

\* variant of StandardizeAngle: a raw number is always taken as radians
StandardizeAngleRadians(theta) ==
    IF theta.kind = "units"
    THEN (IF theta.unit = "deg" THEN Degrees(theta.mag) ELSE Rad2Deg(theta.mag))
    ELSE IF theta.kind = "tuple"
    THEN Degrees(Rat(180 * theta.num, theta.den))
    ELSE Rad2Deg(theta.val)

\* "Standardize Angle": angle_deg
StandardizeAngle(theta) ==
    IF theta.kind = "units"
    THEN (IF theta.unit = "deg" THEN Degrees(theta.mag) ELSE Rad2Deg(theta.mag))
    ELSE IF theta.kind = "tuple"
    THEN Degrees(Rat(180 * theta.num, theta.den))
    ELSE IF AbsGreaterThanTwoPi(theta.val)
         THEN Degrees(theta.val)
         ELSE Rad2Deg(theta.val)

\* the gate calls the register receives
SInvGate(mask) == [gate |-> "s_inv", mask |-> mask]
SGate(mask) == [gate |-> "s", mask |-> mask]
HadGate(mask) == [gate |-> "had", mask |-> mask]
CnotGate(control, target) == [gate |-> "x", target |-> target, cond |-> control]
RzGate(target, angle) == [gate |-> "rz", target |-> target, angle |-> angle]

\* temp_mask & -temp_mask
RECURSIVE LowestSetBit(_)
LowestSetBit(m) == IF m % 2 = 1 THEN 1 ELSE 2 * LowestSetBit(m \div 2)

\* the while loop: the control indices in the order their CNOTs are issued
RECURSIVE LadderControls(_)
LadderControls(temp_mask) ==
    IF temp_mask = 0 THEN <<>>
    ELSE LET lsb == LowestSetBit(temp_mask)
             control_idx == BitLength(lsb) - 1
         IN  <<control_idx>> \o LadderControls(BitXor(temp_mask, lsb))

\* variant of Reversed: the sequence is walked in the order given
InGivenOrder(seq) == seq

\* reversed(seq)
Reversed(seq) == [i \in 1..Len(seq) |-> seq[Len(seq) + 1 - i]]

\* variant of Target: the lowest set bit is the target
TargetLowest(qubits_in_masks) == BitLength(LowestSetBit(qubits_in_masks)) - 1

\* target = qubits_in_masks.bit_length() - 1
Target(qubits_in_masks) == BitLength(qubits_in_masks) - 1

\* variant of BasisChangeIn: S where S-inverse belongs
BasisChangeInS(x_mask, y_mask) ==
    (IF y_mask # 0 THEN <<SGate(y_mask)>> ELSE <<>>)
        \o (IF x_mask # 0 THEN <<HadGate(x_mask)>> ELSE <<>>)

\* if y_mask: s_inv(y_mask); if x_mask: had(x_mask)
BasisChangeIn(x_mask, y_mask) ==
    (IF y_mask # 0 THEN <<SInvGate(y_mask)>> ELSE <<>>)
        \o (IF x_mask # 0 THEN <<HadGate(x_mask)>> ELSE <<>>)

\* if x_mask: had(x_mask); if y_mask: s(y_mask)
BasisChangeOut(x_mask, y_mask) ==
    (IF x_mask # 0 THEN <<HadGate(x_mask)>> ELSE <<>>)
        \o (IF y_mask # 0 THEN <<SGate(y_mask)>> ELSE <<>>)

\* the gate calls of one PPR._compute(qubits, theta, x_mask, z_mask), in order
PPR_compute(theta, x_mask, z_mask) ==
    LET qubits_in_masks == BitOr(x_mask, z_mask)
    IN  IF qubits_in_masks = 0 THEN <<>>
        ELSE LET angle_deg == StandardizeAngle(theta)
                 y_mask == BitAnd(x_mask, z_mask)
                 target == Target(qubits_in_masks)
                 controls_mask == qubits_in_masks - BitAnd(qubits_in_masks, Pow2(target))
                 uncomputation_controls == LadderControls(controls_mask)
                 ladder == [i \in 1..Len(uncomputation_controls) |->
                               CnotGate(uncomputation_controls[i], target)]
             IN  BasisChangeIn(x_mask, y_mask)
                     \o ladder
                     \o <<RzGate(target, Scale(2, angle_deg))>>
                     \o Reversed(ladder)
                     \o BasisChangeOut(x_mask, y_mask)

\* bound: the register of a PPR call has at most MaxWidth qubits
MaxWidth == 5

\* the angles a PPR call is given: raw numbers on both sides of 2*pi, values
\* tagged with a unit, and fractions of pi
PPRThetas ==
    { RawAngle(Rat(1, 2)), RawAngle(RatInt(90)), RawAngle(RatInt(0 - 7)),
      UnitAngle("rad", RatInt(180)), UnitAngle("deg", RatInt(45)),
      PiFraction(1, 4) }

InitPPR ==
    /\ pc = "PPR._compute"
    /\ \E w \in 1..MaxWidth :
          args \in [num_qubits : {w}, theta : PPRThetas,
                    x_mask : 0..(Pow2(w) - 1), z_mask : 0..(Pow2(w) - 1)]
    /\ locals = <<>>
    /\ result = None
    /\ gates = <<>>
    /\ calls = <<>>

CallPPRCompute ==
    /\ pc = "PPR._compute"
    /\ gates' = gates \o PPR_compute(args.theta, args.x_mask, args.z_mask)
    /\ pc' = "done"
    /\ UNCHANGED <<args, locals, result, calls>>

NextPPR == CallPPRCompute

SpecPPR == InitPPR /\ [][NextPPR]_vars

(***************************************************************************)
(* What the gates do to a Pauli operator: a signed Pauli string is         *)
(* [sign, x, z], with sign 1 or -1 and a qubit carrying X (x bit only),    *)
(* Z (z bit only) or the Hermitian Y (both bits).  ConjugateBy(g, P) is    *)
(* G^dagger P G for the unitary G of gate call g.                          *)
(***************************************************************************)
RECURSIVE PopCount(_)
PopCount(m) == IF m = 0 THEN 0 ELSE (m % 2) + PopCount(m \div 2)

BitAndNot(a, b) == a - BitAnd(a, b)

SignedPauli(sgn, x, z) == [sign |-> sgn, x |-> x, z |-> z]

Flip(sgn, n) == IF n % 2 = 1 THEN 0 - sgn ELSE sgn

\* H: X <-> Z, Y -> -Y
ConjugateByHad(mask, P) ==
    SignedPauli(Flip(P.sign, PopCount(BitAnd(BitAnd(P.x, P.z), mask))),
                BitOr(BitAndNot(P.x, mask), BitAnd(P.z, mask)),
                BitOr(BitAndNot(P.z, mask), BitAnd(P.x, mask)))

\* G = S-inverse: S X S^dagger = Y, S Y S^dagger = -X, Z stays
ConjugateBySInv(mask, P) ==
    SignedPauli(Flip(P.sign, PopCount(BitAnd(BitAnd(P.x, P.z), mask))),
                P.x,
                BitXor(P.z, BitAnd(P.x, mask)))

\* G = S: S^dagger X S = -Y, S^dagger Y S = X, Z stays
ConjugateByS(mask, P) ==
    SignedPauli(Flip(P.sign, PopCount(BitAnd(BitAndNot(P.x, P.z), mask))),
                P.x,
                BitXor(P.z, BitAnd(P.x, mask)))

\* CNOT: X_c -> X_c X_t, Z_t -> Z_c Z_t; the sign turns when the control
\* carries an X part, the target a Z part, and the target's X bit equals the
\* control's Z bit
ConjugateByCnot(c, t, P) ==
    LET xc == Bit(P.x, c)
        zc == Bit(P.z, c)
        xt == Bit(P.x, t)
        zt == Bit(P.z, t)
    IN  SignedPauli(IF xc = 1 /\ zt = 1 /\ xt = zc THEN 0 - P.sign ELSE P.sign,
                    IF xc = 1 THEN BitXor(P.x, Pow2(t)) ELSE P.x,
                    IF zt = 1 THEN BitXor(P.z, Pow2(c)) ELSE P.z)

ConjugateBy(g, P) ==
    IF g.gate = "had" THEN ConjugateByHad(g.mask, P)
    ELSE IF g.gate = "s_inv" THEN ConjugateBySInv(g.mask, P)
    ELSE IF g.gate = "s" THEN ConjugateByS(g.mask, P)
    ELSE ConjugateByCnot(g.cond, g.target, P)

\* W^dagger P W for W = the product of the gate calls of seq, seq[1] applied
\* first: the last gate conjugates first
RECURSIVE ConjugateThrough(_, _)
ConjugateThrough(seq, P) ==
    IF seq = <<>> THEN P
    ELSE ConjugateThrough(SubSeq(seq, 1, Len(seq) - 1), ConjugateBy(seq[Len(seq)], P))

InverseGate(g) ==
    IF g.gate = "s_inv" THEN SGate(g.mask)
    ELSE IF g.gate = "s" THEN SInvGate(g.mask)
    ELSE g

\* 2*theta for a theta that carries its unit
TwiceTagged(theta) ==
    IF theta.kind = "units"
    THEN [val |-> RatMul(RatInt(2), theta.mag), unit |-> theta.unit]
    ELSE [val |-> Rat(360 * theta.num, theta.den), unit |-> "deg"]

RzPositions == {k \in 1..Len(gates) : gates[k].gate = "rz"}

\* C1: for every width up to MaxWidth, every (x_mask, z_mask) with
\* x_mask | z_mask # 0 in that width and every theta, the gates emitted are
\* W^dagger . Rz(target) . W for a Clifford W (the gates before the one rotation)
\* that conjugates Z on the target to exactly +P, P the Pauli operator of the
\* masks, with the gates after the rotation the inverse of W, so the sequence
\* composes to a rotation about P; a theta that carries its unit is rotated by
\* 2*theta.
C1_PPRIsPauliRotation ==
    (pc = "done" /\ BitOr(args.x_mask, args.z_mask) # 0) =>
        /\ Cardinality(RzPositions) = 1
        /\ LET k == CHOOSE j \in RzPositions : TRUE
               prefix == SubSeq(gates, 1, k - 1)
               suffix == SubSeq(gates, k + 1, Len(gates))
               t == gates[k].target
           IN  /\ t \in 0..(args.num_qubits - 1)
               /\ ConjugateThrough(prefix, SignedPauli(1, 0, Pow2(t)))
                      = SignedPauli(1, args.x_mask, args.z_mask)
               /\ Len(suffix) = Len(prefix)
               /\ \A i \in 1..Len(suffix) :
                      suffix[i] = InverseGate(prefix[Len(prefix) + 1 - i])
               /\ args.theta.kind # "raw" =>
                      gates[k].angle = TwiceTagged(args.theta)

\* the rotation about Y0 Z1 Y2 Z3 Y4 . X1 X2 (x = 10111, z = 11101) on five
\* qubits has been synthesized: 13 gate calls, S-inverse first
C1_Witness ==
    /\ pc = "done"
    /\ args.num_qubits = 5 /\ args.x_mask = 23 /\ args.z_mask = 29
    /\ Len(gates) = 13
    /\ gates[1] = SInvGate(21)
    /\ gates[7].gate = "rz"

RECURSIVE AscendingSeq(_)
AscendingSeq(S) ==
    IF S = {} THEN <<>>
    ELSE LET least == CHOOSE a \in S : \A b \in S : a <= b
         IN  <<least>> \o AscendingSeq(S \ {least})

\* C2: the gate calls are, in order: S-inverse on y_mask = x_mask & z_mask (if
\* not 0); Hadamard on x_mask (if not 0); CNOT(control c, target t) for each set
\* bit c of x_mask | z_mask other than t, ascending, t the highest set bit; one Z
\* rotation on t; the same CNOTs descending; Hadamard on x_mask; S on y_mask.
\* The sequence mirrors itself around the rotation, and is empty when
\* x_mask | z_mask = 0.
C2_GateOrder ==
    pc = "done" =>
        LET m == BitOr(args.x_mask, args.z_mask)
            y == BitAnd(args.x_mask, args.z_mask)
        IN  IF m = 0 THEN gates = <<>>
            ELSE LET t == CHOOSE b \in BitsOf(m) : \A c \in BitsOf(m) : c <= b
                     cs == AscendingSeq(BitsOf(m) \ {t})
                     up == [i \in 1..Len(cs) |-> CnotGate(cs[i], t)]
                     down == [i \in 1..Len(cs) |-> CnotGate(cs[Len(cs) + 1 - i], t)]
                     before == (IF y # 0 THEN <<SInvGate(y)>> ELSE <<>>)
                                   \o (IF args.x_mask # 0
                                       THEN <<HadGate(args.x_mask)>> ELSE <<>>)
                                   \o up
                     after == down
                                  \o (IF args.x_mask # 0
                                      THEN <<HadGate(args.x_mask)>> ELSE <<>>)
                                  \o (IF y # 0 THEN <<SGate(y)>> ELSE <<>>)
                     mid == Len(before) + 1
                 IN  /\ Len(gates) = 2 * Len(before) + 1
                     /\ SubSeq(gates, 1, mid - 1) = before
                     /\ gates[mid].gate = "rz"
                     /\ gates[mid].target = t
                     /\ SubSeq(gates, mid + 1, Len(gates)) = after
                     /\ \A i \in 1..Len(before) :
                            gates[Len(gates) + 1 - i] = InverseGate(gates[i])

\* scenario A: width 2, x_mask = 11, z_mask = 00, theta = 90 has been synthesized
\* as Hadamard(q0,q1), CNOT(q0 -> q1), Rz(q1, 180 degrees), CNOT, Hadamard
C2_Witness ==
    /\ pc = "done"
    /\ args.num_qubits = 2 /\ args.x_mask = 3 /\ args.z_mask = 0
    /\ args.theta = RawAngle(RatInt(90))
    /\ gates = << HadGate(3), CnotGate(0, 1), RzGate(1, Degrees(RatInt(180))),
                  CnotGate(0, 1), HadGate(3) >>

(***************************************************************************)
(* jw_transform/hamiltonian.py: SYK_hamil                                  *)
(***************************************************************************)
\* one entry of a PauliSum: [coefficient, PauliMask(x_mask, z_mask)]
Term(coeff, x_mask, z_mask) == [coeff |-> coeff, x_mask |-> x_mask, z_mask |-> z_mask]

\* PauliMask * PauliMask of workbench_algorithms: the masks of the operator
\* product, x = x1 XOR x2 and z = z1 XOR z2
PauliMaskMul(op1, op2) ==
    [x_mask |-> BitXor(op1.x_mask, op2.x_mask),
     z_mask |-> BitXor(op1.z_mask, op2.z_mask)]

\* itertools.combinations(range(m), 4): the first tuple, if there is one
HasFirstCombination(m) == m >= 4
FirstCombination == <<0, 1, 2, 3>>

\* itertools.combinations: the positions that can still advance
Advanceable(tup, m) == {i \in 1..4 : tup[i] # (i - 1) + m - 4}

\* itertools.combinations: the tuple after tup (the rightmost position that can
\* advance is raised by one, the positions after it follow consecutively)
NextCombination(tup, m) ==
    LET i == CHOOSE j \in Advanceable(tup, m) : \A k \in Advanceable(tup, m) : k <= j
    IN  [j \in 1..4 |-> IF j < i THEN tup[j] ELSE tup[i] + 1 + (j - i)]

\* np.random.normal after np.random.seed(seed): the k-th value drawn is a
\* function of the seed and of k alone
NormalDraw(seed, k) == Rat(((seed * 7 + k * 3) % 5) - 2, seed + 2)

\* variant of HamilTerm: the quadruple is split into the pairs (0,2) and (1,3)
HamilTermInterleaved(tup, coef) ==
    LET pauli_op1 == SYK_pair_to_mask(tup[1], tup[3])
        pauli_op2 == SYK_pair_to_mask(tup[2], tup[4])
        mask == PauliMaskMul(pauli_op1, pauli_op2)
    IN  Term(RatMul(RatMul(Rat(1, 96), coef),
                    RatInt(Real(CMul(pauli_op1.phase, pauli_op2.phase)))),
             mask.x_mask, mask.z_mask)

\* the entry appended for the quadruple tup and the coefficient coef
HamilTerm(tup, coef) ==
    LET pauli_op1 == SYK_pair_to_mask(tup[1], tup[2])
        pauli_op2 == SYK_pair_to_mask(tup[3], tup[4])
        mask == PauliMaskMul(pauli_op1, pauli_op2)
    IN  Term(RatMul(RatMul(Rat(1, 96), coef),
                    RatInt(Real(CMul(pauli_op1.phase, pauli_op2.phase)))),
             mask.x_mask, mask.z_mask)

\* bound: SYK_hamil is called with at most MaxN qubits
MaxN == 3

\* an optional argument: <<>> for None, <<v>> for the value v
Nothing == <<>>
Some(v) == <<v>>

\* the seeds of the random generator
Seeds == {0, 1}

\* C(m, 4)
Binomial4(m) == (m * (m - 1) * (m - 2) * (m - 3)) \div 24

\* a supplied coefficient list of the given length
CoefList(len) == [k \in 1..len |-> Rat(k - 2, 3)]

\* the coefs argument: absent, empty, one per quadruple, one too few, one too many
CoefChoices(n) ==
    {Nothing, Some(CoefList(0)), Some(CoefList(Binomial4(2 * n))),
     Some(CoefList(Binomial4(2 * n) + 1))}
        \cup (IF Binomial4(2 * n) > 1 THEN {Some(CoefList(Binomial4(2 * n) - 1))} ELSE {})

\* "if coefs:"
Truthy(coefs) == coefs # Nothing /\ coefs[1] # <<>>

InitHamil ==
    /\ pc = "SYK_hamil"
    /\ \E n \in 0..MaxN :
          args \in [n : {n}, J : {1}, coefs : CoefChoices(n),
                    random_seed : {Nothing} \cup {Some(sd) : sd \in Seeds}]
    /\ locals = <<>>
    /\ result = None
    /\ gates = <<>>
    /\ calls = <<>>

\* lines 64-69: seed the generator, compute scale, start with an empty PauliSum;
\* 6/(2*n)**3 divides by zero when n = 0.  Without a seed the generator is in
\* whatever state it was left in.
HamilEnter ==
    /\ pc = "SYK_hamil"
    /\ IF args.n = 0
       THEN /\ pc' = "ZeroDivisionError"
            /\ UNCHANGED locals
       ELSE /\ pc' = "SYK_hamil.for"
            /\ \E seed \in (IF args.random_seed # Nothing THEN {args.random_seed[1]} ELSE Seeds) :
                  locals' = [hamil |-> <<>>, ind |-> 0 - 1, tup |-> Nothing, coef |-> Nothing,
                             rng |-> [seed |-> seed, drawn |-> 0]]
    /\ UNCHANGED <<args, result, gates, calls>>

\* variant of ModeCount: one parity mode per qubit
ModeCountPerQubit(n) == n

\* range(2*n): the number of parity modes of n qubits
ModeCount(n) == 2 * n

HamilHasNext ==
    IF locals.tup = Nothing
    THEN HasFirstCombination(ModeCount(args.n))
    ELSE Advanceable(locals.tup, ModeCount(args.n)) # {}

\* lines 71-83: one pass of the for loop
HamilIterate ==
    /\ pc = "SYK_hamil.for"
    /\ HamilHasNext
    /\ LET tup == IF locals.tup = Nothing THEN FirstCombination
                  ELSE NextCombination(locals.tup, ModeCount(args.n))
           ind == locals.ind + 1
       IN  IF Truthy(args.coefs)
           THEN IF ind < Len(args.coefs[1])
                THEN /\ locals' = [locals EXCEPT
                            !.ind = ind, !.tup = tup, !.coef = args.coefs[1][ind + 1],
                            !.hamil = Append(@, HamilTerm(tup, args.coefs[1][ind + 1]))]
                     /\ pc' = pc
                ELSE /\ locals' = [locals EXCEPT !.ind = ind, !.tup = tup]
                     /\ pc' = "IndexError"
           ELSE LET coef == NormalDraw(locals.rng.seed, locals.rng.drawn)
                IN  /\ locals' = [locals EXCEPT
                            !.ind = ind, !.tup = tup, !.coef = coef,
                            !.rng.drawn = @ + 1,
                            !.hamil = Append(@, HamilTerm(tup, coef))]
                    /\ pc' = pc
    /\ UNCHANGED <<args, result, gates, calls>>

\* line 85: return hamil
HamilReturn ==
    /\ pc = "SYK_hamil.for"
    /\ ~HamilHasNext
    /\ result' = locals.hamil
    /\ pc' = "done"
    /\ UNCHANGED <<args, locals, gates, calls>>

NextHamil == HamilEnter \/ HamilIterate \/ HamilReturn

SpecHamil == InitHamil /\ [][NextHamil]_vars

\* the strictly increasing 4-tuples of 0..m-1
IncreasingTuples(m) ==
    {t \in (0..(m - 1)) \X (0..(m - 1)) \X (0..(m - 1)) \X (0..(m - 1)) :
        t[1] < t[2] /\ t[2] < t[3] /\ t[3] < t[4]}

LexLess(s, t) ==
    \E i \in 1..4 : s[i] < t[i] /\ \A j \in 1..(i - 1) : s[j] = t[j]

\* the tuples of T in lexicographic order
RECURSIVE LexSorted(_)
LexSorted(T) ==
    IF T = {} THEN <<>>
    ELSE LET first == CHOOSE t \in T : \A u \in T \ {t} : LexLess(t, u)
         IN  <<first>> \o LexSorted(T \ {first})

HamilEnded == pc \in {"done", "ZeroDivisionError", "IndexError"}

\* no coefficient list is supplied, or one with a coefficient for every quadruple
CoefsSuffice ==
    Truthy(args.coefs) => Len(args.coefs[1]) >= Binomial4(2 * args.n)

\* the call returned C(2n,4) entries, the k-th with the masks of the k-th
\* increasing 4-tuple in lexicographic order and, when coefficients are supplied,
\* with the k-th supplied coefficient (times +1/96 or -1/96)
HamilAsEnumerated ==
    /\ pc = "done"
    /\ Len(result) = Binomial4(2 * args.n)
    /\ LET tuples == LexSorted(IncreasingTuples(2 * args.n))
       IN  \A k \in 1..Len(result) :
              LET op1 == SYK_pair_to_mask(tuples[k][1], tuples[k][2])
                  op2 == SYK_pair_to_mask(tuples[k][3], tuples[k][4])
              IN  /\ result[k].x_mask = BitXor(op1.x_mask, op2.x_mask)
                  /\ result[k].z_mask = BitXor(op1.z_mask, op2.z_mask)
                  /\ Truthy(args.coefs) =>
                        \E sgn \in {1, 0 - 1} :
                            result[k].coeff = RatMul(Rat(sgn, 96), args.coefs[1][k])

\* C5 as stated: for every qubit count n, SYK_hamil returns exactly C(2n,4)
\* entries, the k-th built from the k-th strictly increasing 4-tuple of [0, 2n) in
\* lexicographic order, with the k-th supplied coefficient when a list is supplied.
C5_EveryQubitCount ==
    (HamilEnded /\ CoefsSuffice) => HamilAsEnumerated

\* C5, amended: the same for every qubit count n >= 1.
C5_PositiveQubitCount ==
    (HamilEnded /\ CoefsSuffice /\ args.n >= 1) => HamilAsEnumerated

\* the Hamiltonian of 3 qubits has been built from 15 supplied coefficients
C5_Witness ==
    /\ pc = "done"
    /\ args.n = 3
    /\ Truthy(args.coefs)
    /\ Len(result) = 15
    /\ result[15].x_mask = 0 /\ result[15].z_mask = 6

RatAbs(r) == <<Abs(r[1]), r[2]>>

\* C6: for every quadruple (a, b, c, d) the loop enumerates, the entry appended
\* has x_mask = x1 XOR x2, z_mask = z1 XOR z2 and coefficient
\* (1/96) * v * real(ph1 * ph2), with (ph1, x1, z1) = SYK_pair_to_mask(a, b),
\* (ph2, x2, z2) = SYK_pair_to_mask(c, d) and v the drawn or supplied value;
\* real(ph1 * ph2) is +1 or -1, so the coefficient has magnitude |v|/96.
C6_TermOfQuadruple ==
    /\ (pc = "SYK_hamil.for" /\ locals.ind >= 0) =>
          LET t == locals.tup
              v == locals.coef
              entry == locals.hamil[locals.ind + 1]
              op1 == SYK_pair_to_mask(t[1], t[2])
              op2 == SYK_pair_to_mask(t[3], t[4])
              re == Real(CMul(op1.phase, op2.phase))
          IN  /\ t[1] < t[2] /\ t[2] < t[3] /\ t[3] < t[4]
              /\ Len(locals.hamil) = locals.ind + 1
              /\ Truthy(args.coefs) => v = args.coefs[1][locals.ind + 1]
              /\ entry.x_mask = BitXor(op1.x_mask, op2.x_mask)
              /\ entry.z_mask = BitXor(op1.z_mask, op2.z_mask)
              /\ re \in {1, 0 - 1}
              /\ entry.coeff = RatMul(Rat(re, 96), v)
              /\ RatAbs(entry.coeff) = RatMul(Rat(1, 96), RatAbs(v))
    /\ (pc = "done" /\ args.n >= 1) => result = locals.hamil

\* the entry of the quadruple (0, 1, 2, 3) has been appended with a drawn
\* coefficient: Z0 Z1, and real(i * i) = -1 turns the sign of the drawn value
C6_Witness ==
    /\ pc = "SYK_hamil.for"
    /\ locals.tup = <<0, 1, 2, 3>>
    /\ ~Truthy(args.coefs)
    /\ locals.coef[1] # 0
    /\ locals.hamil[1].x_mask = 0 /\ locals.hamil[1].z_mask = 3
    /\ locals.hamil[1].coeff = RatMul(Rat(0 - 1, 96), locals.coef)

(***************************************************************************)
(* trotter/trotter.py: the Trotter scheduler.  A call of                   *)
(* ppr_instance.compute is recorded in calls with its arguments and with   *)
(* the list index of the term it was made for, and its gate calls are      *)
(* appended to gates.                                                      *)
(***************************************************************************)
PPRCall(index, theta, x_mask, z_mask) ==
    [index |-> index, theta |-> theta, x_mask |-> x_mask, z_mask |-> z_mask]

\* variant of IsIdentityTerm: only the x_mask is looked at
IsIdentityTermXOnly(x_mask, z_mask) == x_mask = 0

\* qubits_in_masks == 0
IsIdentityTerm(x_mask, z_mask) == BitOr(x_mask, z_mask) = 0

\* theta = coeff * time_step
Theta(coeff, time_step) == RatMul(coeff, time_step)

\* variant of FirstOrderStep: the step of the second-order scheme
FirstOrderStepHalved(time, num_trotter_steps) ==
    RatDiv(time, RatInt(2 * num_trotter_steps))

\* dt = time / num_trotter_steps
FirstOrderStep(time, num_trotter_steps) == RatDiv(time, RatInt(num_trotter_steps))

\* dt = time / (2 * num_trotter_steps)
SecondOrderStep(time, num_trotter_steps) == RatDiv(time, RatInt(2 * num_trotter_steps))

\* variant of ReversedFirst: the backward sweep starts one term early
ReversedFirstSkipsLast(n) == n - 2

\* range(len(hamiltonian) - 1, -1, -1): the first index
ReversedFirst(n) == n - 1

\* variant of Dispatch: any other order falls back to the default order 2
DispatchDefaultsToSecond(order) ==
    IF order = 1 THEN "first_order_trotter" ELSE "second_order_trotter"

\* trotter_evolution: the function an order selects
Dispatch(order) ==
    IF order = 1 THEN "first_order_trotter"
    ELSE IF order = 2 THEN "second_order_trotter"
    ELSE "ValueError"

\* ppr_utils.apply_hamiltonian_as_pprs: the compute calls of one forward pass
\* over the terms from list index i on
RECURSIVE ApplyFrom(_, _, _)
ApplyFrom(hamiltonian, time_step, i) ==
    IF i >= Len(hamiltonian) THEN <<>>
    ELSE LET coeff == hamiltonian[i + 1].coeff
             x_mask == hamiltonian[i + 1].x_mask
             z_mask == hamiltonian[i + 1].z_mask
         IN  IF BitOr(x_mask, z_mask) = 0
             THEN ApplyFrom(hamiltonian, time_step, i + 1)
             ELSE <<PPRCall(i, RatMul(coeff, time_step), x_mask, z_mask)>>
                      \o ApplyFrom(hamiltonian, time_step, i + 1)

\* ppr_utils.apply_hamiltonian_as_pprs(hamiltonian, qubits, ppr_instance, time_step)
ApplyHamiltonianAsPPRs(hamiltonian, time_step) == ApplyFrom(hamiltonian, time_step, 0)

\* bounds: a Hamiltonian of at most MaxTerms terms, at most MaxSteps Trotter steps
MaxTerms == 3
MaxSteps == 2

\* the terms of the Hamiltonians: 0.5 X0 X1 and 0.3 Z0 Z1 (the docstrings'
\* example) and an identity term
TrotterTerms ==
    { Term(Rat(1, 2), 3, 0), Term(Rat(3, 10), 0, 3), Term(RatInt(4), 0, 0) }

RECURSIVE SeqsUpTo(_, _)
SeqsUpTo(S, n) ==
    IF n = 0 THEN {<<>>}
    ELSE LET shorter == SeqsUpTo(S, n - 1)
         IN  shorter \cup {Append(q, e) : q \in shorter, e \in S}

TrotterTimes == {RatInt(1), Rat(3, 2), RatInt(20)}

TrotterOrders == {0, 1, 2, 3}

InitTrotter ==
    /\ pc \in {"trotter_evolution", "first_order_trotter", "second_order_trotter"}
    /\ args \in [entry : {pc},
                 hamiltonian : SeqsUpTo(TrotterTerms, MaxTerms),
                 time : TrotterTimes,
                 num_trotter_steps : 0..MaxSteps,
                 order : IF pc = "trotter_evolution"
                         THEN {Some(o) : o \in TrotterOrders} ELSE {Nothing}]
    /\ locals = [dt |-> Nothing, rep |-> 0, i |-> 0, ret |-> "done"]
    /\ result = None
    /\ gates = <<>>
    /\ calls = <<>>

\* trotter_evolution: lines 211-216
TrotterEvolution ==
    /\ pc = "trotter_evolution"
    /\ pc' = Dispatch(args.order[1])
    /\ UNCHANGED <<args, locals, result, gates, calls>>

\* first_order_trotter: line 124
FirstOrderEnter ==
    /\ pc = "first_order_trotter"
    /\ IF args.num_trotter_steps = 0
       THEN /\ pc' = "ZeroDivisionError"
            /\ UNCHANGED locals
       ELSE /\ pc' = "first_order_trotter.for"
            /\ locals' = [locals EXCEPT
                   !.dt = FirstOrderStep(args.time, args.num_trotter_steps), !.rep = 0]
    /\ UNCHANGED <<args, result, gates, calls>>

\* first_order_trotter: lines 126-127, the loop calls apply_hamiltonian_as_pprs
\* or ends
FirstOrderLoop ==
    /\ pc = "first_order_trotter.for"
    /\ IF locals.rep < args.num_trotter_steps
       THEN /\ pc' = "apply_hamiltonian_as_pprs"
            /\ locals' = [locals EXCEPT !.rep = @ + 1, !.i = 0,
                                        !.ret = "first_order_trotter.for"]
       ELSE /\ pc' = "done"
            /\ UNCHANGED locals
    /\ UNCHANGED <<args, result, gates, calls>>

\* second_order_trotter: line 172
SecondOrderEnter ==
    /\ pc = "second_order_trotter"
    /\ IF args.num_trotter_steps = 0
       THEN /\ pc' = "ZeroDivisionError"
            /\ UNCHANGED locals
       ELSE /\ pc' = "second_order_trotter.for"
            /\ locals' = [locals EXCEPT
                   !.dt = SecondOrderStep(args.time, args.num_trotter_steps), !.rep = 0]
    /\ UNCHANGED <<args, result, gates, calls>>

\* second_order_trotter: lines 174-176, the loop calls the forward sweep or ends
SecondOrderLoop ==
    /\ pc = "second_order_trotter.for"
    /\ IF locals.rep < args.num_trotter_steps
       THEN /\ pc' = "apply_hamiltonian_as_pprs"
            /\ locals' = [locals EXCEPT !.rep = @ + 1, !.i = 0,
                                        !.ret = "second_order_trotter.backward"]
       ELSE /\ pc' = "done"
            /\ UNCHANGED locals
    /\ UNCHANGED <<args, result, gates, calls>>

\* second_order_trotter: lines 178-179, the backward sweep is called
SecondOrderBackward ==
    /\ pc = "second_order_trotter.backward"
    /\ pc' = "apply_hamiltonian_as_pprs_reversed"
    /\ locals' = [locals EXCEPT !.i = ReversedFirst(Len(args.hamiltonian)),
                                !.ret = "second_order_trotter.for"]
    /\ UNCHANGED <<args, result, gates, calls>>

\* the body of both sweeps for the term of list index locals.i: an identity term
\* is skipped, any other term is handed to ppr_instance.compute
ApplyTermAt(next_i) ==
    LET coeff == args.hamiltonian[locals.i + 1].coeff
        x_mask == args.hamiltonian[locals.i + 1].x_mask
        z_mask == args.hamiltonian[locals.i + 1].z_mask
        theta == Theta(coeff, locals.dt)
    IN  /\ IF IsIdentityTerm(x_mask, z_mask)
           THEN UNCHANGED <<calls, gates>>
           ELSE /\ calls' = Append(calls, PPRCall(locals.i, theta, x_mask, z_mask))
                /\ gates' = gates \o PPR_compute(RawAngle(theta), x_mask, z_mask)
        /\ locals' = [locals EXCEPT !.i = next_i]
        /\ UNCHANGED <<pc, args, result>>

\* apply_hamiltonian_as_pprs: lines 29-43, one pass of the loop
ApplyTerm ==
    /\ pc = "apply_hamiltonian_as_pprs"
    /\ locals.i < Len(args.hamiltonian)
    /\ ApplyTermAt(locals.i + 1)

\* apply_hamiltonian_as_pprs: the loop is over, the sweep returns
ApplyReturn ==
    /\ pc = "apply_hamiltonian_as_pprs"
    /\ locals.i >= Len(args.hamiltonian)
    /\ pc' = locals.ret
    /\ UNCHANGED <<args, locals, result, gates, calls>>

\* apply_hamiltonian_as_pprs_reversed: lines 66-80, one pass of the loop
ApplyReversedTerm ==
    /\ pc = "apply_hamiltonian_as_pprs_reversed"
    /\ locals.i >= 0
    /\ ApplyTermAt(locals.i - 1)

\* apply_hamiltonian_as_pprs_reversed: the loop is over, the sweep returns
ApplyReversedReturn ==
    /\ pc = "apply_hamiltonian_as_pprs_reversed"
    /\ locals.i < 0
    /\ pc' = locals.ret
    /\ UNCHANGED <<args, locals, result, gates, calls>>

NextTrotter ==
    \/ TrotterEvolution
    \/ FirstOrderEnter
    \/ FirstOrderLoop
    \/ SecondOrderEnter
    \/ SecondOrderLoop
    \/ SecondOrderBackward
    \/ ApplyTerm
    \/ ApplyReturn
    \/ ApplyReversedTerm
    \/ ApplyReversedReturn

SpecTrotter == InitTrotter /\ [][NextTrotter]_vars

RunsFirstOrder ==
    \/ args.entry = "first_order_trotter"
    \/ args.entry = "trotter_evolution" /\ args.order = Some(1)

RunsSecondOrder ==
    \/ args.entry = "second_order_trotter"
    \/ args.entry = "trotter_evolution" /\ args.order = Some(2)

\* the list indices (from 0) of the terms of H with x_mask | z_mask # 0, ascending
NonIdentityIndices(H) ==
    LET NotIdentity(i) == H[i + 1].x_mask # 0 \/ H[i + 1].z_mask # 0
    IN  SelectSeq([k \in 1..Len(H) |-> k - 1], NotIdentity)

\* the compute call expected for the term of list index i and the time step dt
ExpectedCall(H, i, dt) ==
    PPRCall(i, RatMul(H[i + 1].coeff, dt), H[i + 1].x_mask, H[i + 1].z_mask)

\* C7: first_order_trotter(H, qubits, ppr, t, N) with N >= 1 invokes the PPR
\* synthesizer exactly N * m times, m the number of non-identity terms of H: in
\* each of the N repetitions once per non-identity term, in list order, with
\* theta = coefficient * (t / N) and the term's masks, never for an identity term;
\* with N = 1 and t = 1 the calls are those of one apply_hamiltonian_as_pprs
\* with time step 1.
C7_FirstOrderSchedule ==
    (RunsFirstOrder /\ pc = "done" /\ args.num_trotter_steps >= 1) =>
        LET H == args.hamiltonian
            N == args.num_trotter_steps
            nonid == NonIdentityIndices(H)
            m == Len(nonid)
            dt == RatDiv(args.time, RatInt(N))
        IN  /\ Len(calls) = N * m
            /\ \A r \in 0..(N - 1) : \A j \in 1..m :
                   calls[r * m + j] = ExpectedCall(H, nonid[j], dt)
            /\ \A k \in 1..Len(calls) :
                   calls[k].x_mask # 0 \/ calls[k].z_mask # 0
            /\ (N = 1 /\ args.time = RatInt(1)) =>
                   calls = ApplyHamiltonianAsPPRs(H, RatInt(1))

\* two first-order steps over 0.5 X0X1, identity, 0.3 Z0Z1 for t = 3/2 have run:
\* four compute calls, the identity term never among them
C7_Witness ==
    /\ pc = "done"
    /\ RunsFirstOrder
    /\ args.num_trotter_steps = 2
    /\ args.time = Rat(3, 2)
    /\ args.hamiltonian =
          <<Term(Rat(1, 2), 3, 0), Term(RatInt(4), 0, 0), Term(Rat(3, 10), 0, 3)>>
    /\ Len(calls) = 4
    /\ calls[1] = PPRCall(0, Rat(3, 8), 3, 0)
    /\ calls[4] = PPRCall(2, Rat(9, 40), 0, 3)

\* C8: second_order_trotter(H, qubits, ppr, t, N) with N >= 1 repeats N times a
\* forward pass over the non-identity terms in list order followed by a backward
\* pass over the same terms in reverse list order, every call with
\* theta = coefficient * (t / (2N)); identity terms are skipped in both passes, so
\* the term indices of each repetition, and of the whole schedule, read the same
\* forwards and backwards.
C8_SecondOrderSchedule ==
    (RunsSecondOrder /\ pc = "done" /\ args.num_trotter_steps >= 1) =>
        LET H == args.hamiltonian
            N == args.num_trotter_steps
            nonid == NonIdentityIndices(H)
            m == Len(nonid)
            dt == RatDiv(args.time, RatInt(2 * N))
        IN  /\ Len(calls) = 2 * N * m
            /\ \A r \in 0..(N - 1) : \A j \in 1..m :
                   /\ calls[2 * r * m + j] = ExpectedCall(H, nonid[j], dt)
                   /\ calls[2 * r * m + m + j] = ExpectedCall(H, nonid[m + 1 - j], dt)
            /\ \A k \in 1..Len(calls) :
                   /\ calls[k].x_mask # 0 \/ calls[k].z_mask # 0
                   /\ calls[k].index = calls[Len(calls) + 1 - k].index
            /\ \A r \in 0..(N - 1) : \A j \in 1..(2 * m) :
                   calls[2 * r * m + j].index = calls[2 * r * m + (2 * m + 1 - j)].index

\* two second-order steps over 0.5 X0X1, identity, 0.3 Z0Z1 for t = 1 have run:
\* the term indices are 0 2 2 0 0 2 2 0 and every theta is coefficient / 4
C8_Witness ==
    /\ pc = "done"
    /\ RunsSecondOrder
    /\ args.num_trotter_steps = 2
    /\ args.time = RatInt(1)
    /\ args.hamiltonian =
          <<Term(Rat(1, 2), 3, 0), Term(RatInt(4), 0, 0), Term(Rat(3, 10), 0, 3)>>
    /\ [k \in 1..Len(calls) |-> calls[k].index] = <<0, 2, 2, 0, 0, 2, 2, 0>>
    /\ calls[1].theta = Rat(1, 8)
    /\ calls[2].theta = Rat(3, 40)

\* C9: trotter_evolution called with an order that is neither 1 nor 2 ends in
\* ValueError whatever the other arguments are, and no compute call and no gate
\* call is made before it does.
C9_InvalidOrderFails ==
    (args.entry = "trotter_evolution" /\ args.order \notin {Some(1), Some(2)}) =>
        /\ pc \in {"trotter_evolution", "ValueError"}
        /\ calls = <<>>
        /\ gates = <<>>

\* order 3 has been refused for a Hamiltonian with a term to apply, although the
\* step count 0 would make either scheme divide by zero
C9_Witness ==
    /\ pc = "ValueError"
    /\ args.order = Some(3)
    /\ args.num_trotter_steps = 0
    /\ args.hamiltonian = <<Term(Rat(1, 2), 3, 0)>>
    /\ calls = <<>>
    /\ gates = <<>>

(***************************************************************************)
(* ppr_utils.py: pauli_string_to_masks.  A Python str is the sequence of   *)
(* its characters.                                                         *)
(***************************************************************************)
DigitChars == {"0", "1", "2", "3", "4", "5", "6", "7", "8", "9"}

DigitValue(c) ==
    CASE c = "0" -> 0 [] c = "1" -> 1 [] c = "2" -> 2 [] c = "3" -> 3
      [] c = "4" -> 4 [] c = "5" -> 5 [] c = "6" -> 6 [] c = "7" -> 7
      [] c = "8" -> 8 [] c = "9" -> 9

\* ' ' in pauli_string
HasSpace(str) == \E i \in 1..Len(str) : str[i] = " "

\* the length of the run of non-blank characters str starts with
RECURSIVE WordLength(_)
WordLength(str) ==
    IF str = <<>> \/ Head(str) = " " THEN 0 ELSE 1 + WordLength(Tail(str))

\* pauli_string.strip().split(): the maximal runs of non-blank characters
RECURSIVE StripSplit(_)
StripSplit(str) ==
    IF str = <<>> THEN <<>>
    ELSE IF Head(str) = " " THEN StripSplit(Tail(str))
    ELSE LET n == WordLength(str)
         IN  <<SubSeq(str, 1, n)>> \o StripSplit(SubSeq(str, n + 1, Len(str)))

\* the value of a run of decimal digits
RECURSIVE DecimalValue(_)
DecimalValue(text) ==
    IF text = <<>> THEN 0
    ELSE 10 * DecimalValue(SubSeq(text, 1, Len(text) - 1)) + DigitValue(text[Len(text)])

AllDigits(text) == text # <<>> /\ \A i \in 1..Len(text) : text[i] \in DigitChars

\* int(text): an optional sign and decimal digits, ValueError for anything else
ParseInt(text) ==
    IF AllDigits(text) THEN [ok |-> TRUE, val |-> DecimalValue(text)]
    ELSE IF text # <<>> /\ text[1] = "-" /\ AllDigits(Tail(text))
    THEN [ok |-> TRUE, val |-> 0 - DecimalValue(Tail(text))]
    ELSE IF text # <<>> /\ text[1] = "+" /\ AllDigits(Tail(text))
    THEN [ok |-> TRUE, val |-> DecimalValue(Tail(text))]
    ELSE [ok |-> FALSE, val |-> 0]

Returned(x_mask, z_mask) == [pc |-> "done", x_mask |-> x_mask, z_mask |-> z_mask]
Raised(exception) == [pc |-> exception, x_mask |-> 0, z_mask |-> 0]

\* the loop over parts, from parts[k] on, with the masks built so far; a shift
\* by a negative index raises ValueError
RECURSIVE TokenLoop(_, _, _, _)
TokenLoop(parts, k, x_mask, z_mask) ==
    IF k > Len(parts) THEN Returned(x_mask, z_mask)
    ELSE LET pauli == parts[k][1]
             qubit_idx == ParseInt(Tail(parts[k]))
             sets_x == pauli = "X" \/ pauli = "Y"
             sets_z == pauli = "Z" \/ pauli = "Y"
         IN  IF ~qubit_idx.ok THEN Raised("ValueError")
             ELSE IF (sets_x \/ sets_z) /\ qubit_idx.val < 0 THEN Raised("ValueError")
             ELSE TokenLoop(parts, k + 1,
                            IF sets_x THEN BitOr(x_mask, Pow2(qubit_idx.val)) ELSE x_mask,
                            IF sets_z THEN BitOr(z_mask, Pow2(qubit_idx.val)) ELSE z_mask)

\* the loop over enumerate(reversed(pauli_string)), from index i on
RECURSIVE DenseLoop(_, _, _, _)
DenseLoop(rev, i, x_mask, z_mask) ==
    IF i >= Len(rev) THEN Returned(x_mask, z_mask)
    ELSE LET pauli == rev[i + 1]
         IN  DenseLoop(rev, i + 1,
                       IF pauli = "X" \/ pauli = "Y" THEN BitOr(x_mask, Pow2(i)) ELSE x_mask,
                       IF pauli = "Z" \/ pauli = "Y" THEN BitOr(z_mask, Pow2(i)) ELSE z_mask)

pauli_string_to_masks(pauli_string) ==
    IF HasSpace(pauli_string)
    THEN TokenLoop(StripSplit(pauli_string), 1, 0, 0)
    ELSE DenseLoop(Reversed(pauli_string), 0, 0, 0)

\* bounds: texts of at most MaxTokens tokens, dense texts of at most MaxDense
\* characters
MaxTokens == 2
MaxDense == 4

\* the tokens of the texts: a letter (A is no Pauli letter) and an index text
\* (a number, nothing, a negative number, a letter)
TokenLetters == {"X", "Y", "Z", "A"}
IndexTexts == {<<"0">>, <<"1">>, <<"2">>, <<"1", "0">>, <<>>, <<"-", "1">>, <<"x">>}
TokenTexts == {<<l>> \o d : l \in TokenLetters, d \in IndexTexts}

\* " ".join(tokens)
RECURSIVE JoinWithSpaces(_)
JoinWithSpaces(tokens) ==
    IF tokens = <<>> THEN <<>>
    ELSE IF Len(tokens) = 1 THEN tokens[1]
    ELSE tokens[1] \o <<" ">> \o JoinWithSpaces(Tail(tokens))

DenseLetters == {"X", "Y", "Z", "I", "A"}

\* the texts handed to pauli_string_to_masks: tokens joined by blanks, the same
\* after a leading blank, and dense strings
PauliStrings ==
    LET joined == {JoinWithSpaces(q) : q \in SeqsUpTo(TokenTexts, MaxTokens) \ {<<>>}}
    IN  joined \cup {<<" ">> \o t : t \in joined} \cup SeqsUpTo(DenseLetters, MaxDense)

InitCodec ==
    /\ pc = "pauli_string_to_masks"
    /\ args \in [pauli_string : PauliStrings]
    /\ locals = <<>>
    /\ result = None
    /\ gates = <<>>
    /\ calls = <<>>

CallPauliStringToMasks ==
    /\ pc = "pauli_string_to_masks"
    /\ LET r == pauli_string_to_masks(args.pauli_string)
       IN  /\ pc' = r.pc
           /\ result' = IF r.pc = "done" THEN <<r.x_mask, r.z_mask>> ELSE None
    /\ UNCHANGED <<args, locals, gates, calls>>

NextCodec == CallPauliStringToMasks

SpecCodec == InitCodec /\ [][NextCodec]_vars

PauliLetters == {"X", "Y", "Z"}

\* str is one or more tokens "{X|Y|Z}{index}", separated by single blanks
InTokenFormat(str) ==
    /\ str # <<>>
    /\ str[1] \in PauliLetters
    /\ str[Len(str)] \in DigitChars
    /\ \A i \in 1..Len(str) :
          \/ /\ str[i] \in PauliLetters
             /\ i = 1 \/ str[i - 1] = " "
             /\ i < Len(str) /\ str[i + 1] \in DigitChars
          \/ str[i] \in DigitChars
          \/ /\ str[i] = " "
             /\ 1 < i /\ str[i - 1] \in DigitChars
             /\ i < Len(str) /\ str[i + 1] \in PauliLetters

TokenStarts(str) == {i \in 1..Len(str) : str[i] \in PauliLetters}

\* the index written after the letter at position i
IndexWritten(str, i) ==
    LET last == CHOOSE j \in (i + 1)..Len(str) :
                    /\ \A k \in (i + 1)..j : str[k] \in DigitChars
                    /\ j = Len(str) \/ str[j + 1] = " "
    IN  DecimalValue(SubSeq(str, i + 1, last))

DistinctIndices(str) ==
    \A i, j \in TokenStarts(str) :
        i # j => IndexWritten(str, i) # IndexWritten(str, j)

\* the qubits str gives one of the letters to
QubitsGiven(str, letters) ==
    {IndexWritten(str, i) : i \in {j \in TokenStarts(str) : str[j] \in letters}}

\* C10: for every Pauli string in token format, one or more tokens
\* "{X|Y|Z}{index}" with distinct indices, pauli_string_to_masks returns x_mask
\* with bit i set iff qubit i is given X or Y and z_mask with bit i set iff qubit
\* i is given Z or Y; also for a string of a single token, which has no blank.
C10_TokenFormatDecoded ==
    (/\ pc # "pauli_string_to_masks"
     /\ InTokenFormat(args.pauli_string)
     /\ DistinctIndices(args.pauli_string)) =>
        /\ pc = "done"
        /\ BitsOf(result[1]) = QubitsGiven(args.pauli_string, {"X", "Y"})
        /\ BitsOf(result[2]) = QubitsGiven(args.pauli_string, {"Z", "Y"})

DenseAlphabet == {"X", "Y", "Z", "I"}

IsDense(str) == \A i \in 1..Len(str) : str[i] \in DenseAlphabet

\* the distances from the right end at which str has one of the letters
QubitsFromRight(str, letters) ==
    {k \in 0..(Len(str) - 1) : str[Len(str) - k] \in letters}

\* the distances from the left end at which str has one of the letters
QubitsFromLeft(str, letters) ==
    {k \in 0..(Len(str) - 1) : str[k + 1] \in letters}

C12_DenseLeftToRight ==
    (pc # "pauli_string_to_masks" /\ IsDense(args.pauli_string)) =>
        /\ pc = "done"
        /\ BitsOf(result[1]) = QubitsFromLeft(args.pauli_string, {"X", "Y"})
        /\ BitsOf(result[2]) = QubitsFromLeft(args.pauli_string, {"Z", "Y"})
        /\ args.pauli_string = <<"X", "Y", "Z", "I">> => result = <<3, 6>>

\* str is neither a dense string nor blank-separated tokens of a Pauli letter
\* and a non-negative decimal index (a leading blank is let through)
Malformed(str) ==
    /\ ~IsDense(str)
    /\ ~InTokenFormat(str)
    /\ ~(str # <<>> /\ str[1] = " " /\ InTokenFormat(Tail(str)))

\* C13: pauli_string_to_masks given malformed text (a letter that is not
\* allowed, or a token with a missing, non-numeric or negative index) ends in a
\* parse failure and never returns a mask pair.
C13_MalformedRejected ==
    (pc # "pauli_string_to_masks" /\ Malformed(args.pauli_string)) =>
        pc = "ValueError" /\ result = None

\* the Z rotations among the gates issued so far, in order
RzGates == SelectSeq(gates, LAMBDA g : g.gate = "rz")

\* C14: for every plain-number angle theta = coefficient * dt the Trotter
\* scheduler hands to the PPR synthesizer, the Z rotation applied to the target
\* is 2 * theta with theta taken as radians, whatever the magnitude of theta, so
\* that all rotations of a schedule are in one unit and in the ratio of their
\* thetas.
C14_RotationIsTwiceThetaRadians ==
    /\ Len(RzGates) = Len(calls)
    /\ \A k \in 1..Len(calls) :
          RzGates[k].angle = Rad2Deg(RatMul(RatInt(2), calls[k].theta))
    /\ \A j, k \in 1..Len(calls) :
          /\ RzGates[j].angle.unit = RzGates[k].angle.unit
          /\ RatMul(RzGates[j].angle.val, calls[k].theta)
                 = RatMul(RzGates[k].angle.val, calls[j].theta)

\* popcount(x1 & z2) + popcount(z1 & x2)
SymplecticOverlap(op1, op2) ==
    PopCount(BitAnd(op1.x_mask, op2.z_mask)) + PopCount(BitAnd(op1.z_mask, op2.x_mask))

\* C15: for mode indices a # b and c # d, the operators SYK_pair_to_mask returns
\* for the pairs (a, b) and (c, d) anticommute (odd symplectic overlap) exactly
\* when the pairs share exactly one index, and commute (even overlap) when they
\* share no index or both.
C15_PairCommutation ==
    (pc = "done" /\ args.p # args.q) =>
        \A c, d \in 0..(MaxMode - 1) :
            c # d =>
                LET other == SYK_pair_to_mask(c, d)
                    shared == Cardinality({args.p, args.q} \cap {c, d})
                IN  (SymplecticOverlap(result, other) % 2 = 1) <=> (shared = 1)

\* the pair (1, 2) is X0 X1: it anticommutes with (2, 3) = Z1 and with
\* (0, 1) = Z0, and commutes with (0, 3) = Y0 Y1, which shares no index, across
\* the Z of its string
C15_Witness ==
    /\ pc = "done"
    /\ args.p = 1 /\ args.q = 2
    /\ result.x_mask = 3 /\ result.z_mask = 0
    /\ SymplecticOverlap(result, SYK_pair_to_mask(2, 3)) = 1
    /\ SymplecticOverlap(result, SYK_pair_to_mask(0, 1)) = 1
    /\ SymplecticOverlap(result, SYK_pair_to_mask(0, 3)) = 2

\* the Pauli factor the masks put on qubit k
PauliAt(op, k) ==
    IF Bit(op.x_mask, k) = 1
    THEN (IF Bit(op.z_mask, k) = 1 THEN "Y" ELSE "X")
    ELSE (IF Bit(op.z_mask, k) = 1 THEN "Z" ELSE "I")

\* the power of i in the product of two one-qubit Pauli factors: XY = iZ,
\* YZ = iX, ZX = iY, and -i in the other order
FactorPhase(a, b) ==
    IF a = "I" \/ b = "I" \/ a = b THEN 0
    ELSE IF <<a, b>> \in {<<"X", "Y">>, <<"Y", "Z">>, <<"Z", "X">>} THEN 1
    ELSE 3

\* the power of i in the product of the Pauli strings op1 and op2, qubits 0..k
RECURSIVE ProductPhase(_, _, _)
ProductPhase(op1, op2, k) ==
    IF k < 0 THEN 0
    ELSE (FactorPhase(PauliAt(op1, k), PauliAt(op2, k)) + ProductPhase(op1, op2, k - 1)) % 4

\* C16: for every strictly increasing quadruple (a, b, c, d) enumerated by
\* SYK_hamil, the operators of the pairs (a, b) and (c, d) never put different
\* non-identity Pauli factors on one qubit (x1 & z2 = 0, z1 & x2 = 0 and
\* z1 & z2 = 0), so their product has no phase of its own, its masks are the XOR
\* of the pair masks, and the emitted term is never the identity.
C16_PairsDoNotClash ==
    (pc = "SYK_hamil.for" /\ locals.ind >= 0) =>
        LET t == locals.tup
            entry == locals.hamil[locals.ind + 1]
            op1 == SYK_pair_to_mask(t[1], t[2])
            op2 == SYK_pair_to_mask(t[3], t[4])
        IN  /\ t[1] < t[2] /\ t[2] < t[3] /\ t[3] < t[4]
            /\ BitAnd(op1.x_mask, op2.z_mask) = 0
            /\ BitAnd(op1.z_mask, op2.x_mask) = 0
            /\ BitAnd(op1.z_mask, op2.z_mask) = 0
            /\ \A k \in 0..(args.n - 1) :
                  PauliAt(op1, k) = "I" \/ PauliAt(op2, k) = "I"
                      \/ PauliAt(op1, k) = PauliAt(op2, k)
            /\ ProductPhase(op1, op2, args.n - 1) = 0
            /\ \A k \in 0..(args.n - 1) :
                  PauliAt(entry, k) =
                      (IF PauliAt(op1, k) = "I" THEN PauliAt(op2, k)
                       ELSE IF PauliAt(op2, k) = "I" THEN PauliAt(op1, k)
                       ELSE "I")
            /\ BitOr(entry.x_mask, entry.z_mask) # 0

\* the quadruple (0, 2, 3, 4): the pairs (0, 2) = Y0 X1 and (3, 4) = X1 X2 meet on
\* qubit 1 with the same factor, and the term is Y0 X2
C16_Witness ==
    /\ pc = "SYK_hamil.for"
    /\ locals.tup = <<0, 2, 3, 4>>
    /\ SYK_pair_to_mask(0, 2).x_mask = 3 /\ SYK_pair_to_mask(0, 2).z_mask = 1
    /\ SYK_pair_to_mask(3, 4).x_mask = 6 /\ SYK_pair_to_mask(3, 4).z_mask = 0
    /\ locals.hamil[locals.ind + 1].x_mask = 5
    /\ locals.hamil[locals.ind + 1].z_mask = 1

====
